---- MODULE Spec2Model ----
(***************************************************************************)
(* OrganizationsManager (src/management/OrganizationsManager.js): the      *)
(* constructor, the nine public operations, and the rest clients they      *)
(* delegate to.                                                            *)
(***************************************************************************)
EXTENDS Naturals, Sequences, FiniteSets, TLC

(* ---------------------------------------------------------------- bounds *)
\* retry policies 1..MaxAttempts attempts are tried
MaxAttempts == 2
\* calls in flight at once in the concurrent specification
MaxCalls == 2

(* ------------------------------------------------------------- JS values *)
\* A JavaScript value: its type tag, its printed value, and (for objects)
\* the two properties the manager and the templates read.
Scalar(t, v) == [type |-> t, val |-> v]
U == Scalar("undefined", "")
N == Scalar("null", "")
Str(s) == Scalar("string", s)
Num(s) == Scalar("number", s)

JS(t, v) == [type |-> t, val |-> v, id |-> U, connection_id |-> U]
Undefined == JS("undefined", "")
Null == JS("null", "")
Fn == JS("function", "cb")
NotFn == JS("string", "cb")
Obj(i, c) == [type |-> "object", val |-> "", id |-> i, connection_id |-> c]
EmptyObj == Obj(U, U)

\* typeof v
TypeOf(v) == IF v.type = "null" THEN "object" ELSE v.type

\* ToBoolean(v), as !v and v || w use it
Truthy(v) ==
  CASE v.type \in {"undefined", "null"} -> FALSE
    [] v.type = "string" -> v.val # ""
    [] v.type = "number" -> v.val \notin {"0", "NaN"}
    [] v.type = "boolean" -> v.val = "true"
    [] OTHER -> TRUE

\* a || b
Or(a, b) == IF Truthy(a) THEN a ELSE b

\* v instanceof Function
InstanceOfFunction(v) == v.type = "function"

\* v[name] for name in {id, connection_id}; a property no value carries
\* reads as undefined
Prop(v, name) ==
  IF v.type # "object" THEN U
  ELSE IF name = "id" THEN v.id
  ELSE IF name = "connection_id" THEN v.connection_id
  ELSE U

\* arguments[i - 1] of a call made with the argument list args
Arg(args, i) == IF i <= Len(args) THEN args[i] ELSE Undefined

(* ------------------------------------------------------------- templates *)
Lit(s) == [kind |-> "lit", name |-> s]
Ph(n) == [kind |-> "ph", name |-> n]

OrganizationsPath == <<Lit("organizations"), Ph("id")>>
ConnectionsPath ==
  <<Lit("organizations"), Ph("id"), Lit("enabled_connections"), Ph("connection_id")>>
MembersPath == <<Lit("organizations"), Ph("id"), Lit("members")>>

\* baseUrl + path
Template(baseUrl, segs) == [base |-> baseUrl.val, segs |-> segs]
NoTemplate == [base |-> "", segs |-> <<>>]

(* ------------------------------------------------------------ collaborators *)
NoOptions == [headers |-> "", repeatParams |-> TRUE]
NoRestClient == [url |-> NoTemplate, options |-> NoOptions, provider |-> ""]
NoClient == [restClient |-> NoRestClient, retry |-> 0]

\* new Auth0RestClient(resourceUrl, options, provider)
Auth0RestClient(resourceUrl, options, provider) ==
  [url |-> resourceUrl, options |-> options, provider |-> provider]

\* new RetryRestClient(restClient, retry)
RetryRestClient(restClient, retry) == [restClient |-> restClient, retry |-> retry]

(* ------------------------------------------------------------ constructor *)
NoManager ==
  [built |-> FALSE, organizations |-> NoClient, connections |-> NoClient,
   members |-> NoClient]

\* the constructor left by a throw: clients counts the rest clients already
\* constructed at that point
CtorThrow(message, clients) ==
  [threw |-> TRUE, error |-> "ArgumentError", message |-> message,
   clients |-> clients, this |-> NoManager]

\* the constructor without the length check of line 33
OrganizationsManager_NoLengthCheck(options) ==
  IF options.type = "null" \/ TypeOf(options) # "object"
  THEN CtorThrow("Must provide manager options", 0)
  ELSE IF options.baseUrl.type = "null" \/ options.baseUrl.type = "undefined"
  THEN CtorThrow("Must provide a base URL for the API", 0)
  ELSE IF "string" # TypeOf(options.baseUrl)
  THEN CtorThrow("The provided base URL is invalid", 0)
  ELSE
    LET clientOptions == [headers |-> options.headers, repeatParams |-> FALSE]
        auth0RestClient ==
          Auth0RestClient(Template(options.baseUrl, OrganizationsPath),
                          clientOptions, options.tokenProvider)
        connectionsInRoleClient ==
          Auth0RestClient(Template(options.baseUrl, ConnectionsPath),
                          clientOptions, options.tokenProvider)
        membersClient ==
          Auth0RestClient(Template(options.baseUrl, MembersPath),
                          clientOptions, options.tokenProvider)
    IN [threw |-> FALSE, error |-> "", message |-> "", clients |-> 3,
        this |-> [built |-> TRUE,
                  organizations |-> RetryRestClient(auth0RestClient, options.retry),
                  connections |-> RetryRestClient(connectionsInRoleClient, options.retry),
                  members |-> RetryRestClient(membersClient, options.retry)]]

\* var OrganizationsManager = function(options) { ... }
OrganizationsManager(options) ==
  IF options.type = "null" \/ TypeOf(options) # "object"
  THEN CtorThrow("Must provide manager options", 0)
  ELSE IF options.baseUrl.type = "null" \/ options.baseUrl.type = "undefined"
  THEN CtorThrow("Must provide a base URL for the API", 0)
  ELSE IF "string" # TypeOf(options.baseUrl) \/ options.baseUrl.val = ""
  THEN CtorThrow("The provided base URL is invalid", 0)
  ELSE
    LET clientOptions == [headers |-> options.headers, repeatParams |-> FALSE]
        auth0RestClient ==
          Auth0RestClient(Template(options.baseUrl, OrganizationsPath),
                          clientOptions, options.tokenProvider)
        connectionsInRoleClient ==
          Auth0RestClient(Template(options.baseUrl, ConnectionsPath),
                          clientOptions, options.tokenProvider)
        membersClient ==
          Auth0RestClient(Template(options.baseUrl, MembersPath),
                          clientOptions, options.tokenProvider)
    IN [threw |-> FALSE, error |-> "", message |-> "", clients |-> 3,
        this |-> [built |-> TRUE,
                  organizations |-> RetryRestClient(auth0RestClient, options.retry),
                  connections |-> RetryRestClient(connectionsInRoleClient, options.retry),
                  members |-> RetryRestClient(membersClient, options.retry)]]

(* ------------------------------------------------------- manager methods *)
\* What one call of a manager method did before it returned or threw: the
\* client calls it made, in order, and the receiver and the caller's
\* argument objects as the call left them.
Threw(message, this, args) ==
  [threw |-> TRUE, error |-> "ArgumentError", message |-> message,
   notified |-> 0, dispatches |-> <<>>, this |-> this, argsAfter |-> args]

\* return this[client][verb](...cargs)
Return(client, verb, cargs, this, args) ==
  [threw |-> FALSE, error |-> "", message |-> "", notified |-> 0,
   dispatches |-> <<[client |-> client, verb |-> verb, args |-> cargs]>>,
   this |-> this, argsAfter |-> args]

\* utils.wrapPropertyMethod(Parent, name, 'property.method'): the method name
\* of Parent is property's method, bound to the property; the caller's
\* argument list reaches it as it is
WrapPropertyMethod(property, method, this, args) ==
  Return(property, method, args, this, args)

create(this, args) == WrapPropertyMethod("organizations", "create", this, args)

getAll(this, args) == WrapPropertyMethod("organizations", "getAll", this, args)

get(this, args) == WrapPropertyMethod("organizations", "get", this, args)

update(this, args) == WrapPropertyMethod("organizations", "patch", this, args)

delete(this, args) == WrapPropertyMethod("organizations", "delete", this, args)

\* getEnabledConnections delegating to the item verb
getEnabledConnections_Get(this, args) ==
  Return("connections", "get", <<Arg(args, 1), Arg(args, 2)>>, this, args)

getEnabledConnections(this, args) ==
  Return("connections", "getAll", <<Arg(args, 1), Arg(args, 2)>>, this, args)

getEnabledConnection(this, args) ==
  Return("connections", "get", <<Arg(args, 1), Arg(args, 2)>>, this, args)

\* addEnabledConnection without the typeof check of line 294
addEnabledConnection_NoTypeCheck(this, args) ==
  LET data == Or(Arg(args, 2), EmptyObj)
      params == Or(Arg(args, 1), EmptyObj)
      cb == Arg(args, 3)
  IN IF ~Truthy(Prop(params, "id"))
     THEN Threw("The organizationId passed in params cannot be null or undefined",
                this, args)
     ELSE IF Truthy(cb) /\ InstanceOfFunction(cb)
     THEN Return("connections", "create", <<params, data, cb>>, this, args)
     ELSE Return("connections", "create", <<params, data>>, this, args)

\* addEnabledConnection reporting a validation failure to the callback
\* instead of throwing
addEnabledConnection_ErrToCallback(this, args) ==
  LET data == Or(Arg(args, 2), EmptyObj)
      params == Or(Arg(args, 1), EmptyObj)
      cb == Arg(args, 3)
      bad == ~Truthy(Prop(params, "id")) \/ TypeOf(Prop(params, "id")) # "string"
  IN IF bad /\ Truthy(cb) /\ InstanceOfFunction(cb)
     THEN [threw |-> FALSE, error |-> "ArgumentError",
           message |-> "The organization Id has to be a string", notified |-> 1,
           dispatches |-> <<>>, this |-> this, argsAfter |-> args]
     ELSE IF bad
     THEN Threw("The organization Id has to be a string", this, args)
     ELSE IF Truthy(cb) /\ InstanceOfFunction(cb)
     THEN Return("connections", "create", <<params, data, cb>>, this, args)
     ELSE Return("connections", "create", <<params, data>>, this, args)

\* addEnabledConnection never forwarding cb
addEnabledConnection_DropsCallback(this, args) ==
  LET data == Or(Arg(args, 2), EmptyObj)
      params == Or(Arg(args, 1), EmptyObj)
  IN IF ~Truthy(Prop(params, "id"))
     THEN Threw("The organizationId passed in params cannot be null or undefined",
                this, args)
     ELSE IF TypeOf(Prop(params, "id")) # "string"
     THEN Threw("The organization Id has to be a string", this, args)
     ELSE Return("connections", "create", <<params, data>>, this, args)

\* addEnabledConnection deleting connection_id from the caller's params
\* before it forwards them
addEnabledConnection_Mutates(this, args) ==
  LET data == Or(Arg(args, 2), EmptyObj)
      params == Or(Arg(args, 1), EmptyObj)
      cb == Arg(args, 3)
      after == <<[params EXCEPT !.connection_id = U]>> \o
               (IF Len(args) > 1 THEN SubSeq(args, 2, Len(args)) ELSE <<>>)
  IN IF ~Truthy(Prop(params, "id"))
     THEN Threw("The organizationId passed in params cannot be null or undefined",
                this, args)
     ELSE IF TypeOf(Prop(params, "id")) # "string"
     THEN Threw("The organization Id has to be a string", this, args)
     ELSE IF Truthy(cb) /\ InstanceOfFunction(cb)
     THEN Return("connections", "create", <<params, data, cb>>, this, after)
     ELSE Return("connections", "create", <<params, data>>, this, after)

addEnabledConnection(this, args) ==
  LET data == Or(Arg(args, 2), EmptyObj)
      params == Or(Arg(args, 1), EmptyObj)
      cb == Arg(args, 3)
  IN IF ~Truthy(Prop(params, "id"))
     THEN Threw("The organizationId passed in params cannot be null or undefined",
                this, args)
     ELSE IF TypeOf(Prop(params, "id")) # "string"
     THEN Threw("The organization Id has to be a string", this, args)
     ELSE IF Truthy(cb) /\ InstanceOfFunction(cb)
     THEN Return("connections", "create", <<params, data, cb>>, this, args)
     ELSE Return("connections", "create", <<params, data>>, this, args)

\* removeEnabledConnection without the connection_id checks of lines 337-342
removeEnabledConnection_NoConnectionCheck(this, args) ==
  LET params == Or(Arg(args, 1), EmptyObj)
      cb == Arg(args, 2)
  IN IF ~Truthy(Prop(params, "id"))
     THEN Threw("The organization ID passed in params cannot be null or undefined",
                this, args)
     ELSE IF TypeOf(Prop(params, "id")) # "string"
     THEN Threw("The organization ID has to be a string", this, args)
     ELSE IF Truthy(cb) /\ InstanceOfFunction(cb)
     THEN Return("connections", "delete", <<params, EmptyObj, cb>>, this, args)
     ELSE Return("connections", "delete", <<params, EmptyObj>>, this, args)

removeEnabledConnection(this, args) ==
  LET params == Or(Arg(args, 1), EmptyObj)
      cb == Arg(args, 2)
  IN IF ~Truthy(Prop(params, "id"))
     THEN Threw("The organization ID passed in params cannot be null or undefined",
                this, args)
     ELSE IF TypeOf(Prop(params, "id")) # "string"
     THEN Threw("The organization ID has to be a string", this, args)
     ELSE IF ~Truthy(Prop(params, "connection_id"))
     THEN Threw("The connection ID passed in params cannot be null or undefined",
                this, args)
     ELSE IF TypeOf(Prop(params, "connection_id")) # "string"
     THEN Threw("The connection ID has to be a string", this, args)
     ELSE IF Truthy(cb) /\ InstanceOfFunction(cb)
     THEN Return("connections", "delete", <<params, EmptyObj, cb>>, this, args)
     ELSE Return("connections", "delete", <<params, EmptyObj>>, this, args)

\* the methods of OrganizationsManager.prototype
PublicOps ==
  {"create", "getAll", "get", "update", "delete", "getEnabledConnections",
   "getEnabledConnection", "addEnabledConnection", "removeEnabledConnection"}

\* this[op](...args)
Method(op, this, args) ==
  CASE op = "create" -> create(this, args)
    [] op = "getAll" -> getAll(this, args)
    [] op = "get" -> get(this, args)
    [] op = "update" -> update(this, args)
    [] op = "delete" -> delete(this, args)
    [] op = "getEnabledConnections" -> getEnabledConnections(this, args)
    [] op = "getEnabledConnection" -> getEnabledConnection(this, args)
    [] op = "addEnabledConnection" -> addEnabledConnection(this, args)
    [] op = "removeEnabledConnection" -> removeEnabledConnection(this, args)

(* ------------------------------------------------- the rest clients' verbs *)
\* the verbs the manager reaches on a retry client
Verbs == {"create", "getAll", "get", "patch", "update", "delete"}

\* this[name] for the three client properties
ClientOf(this, name) ==
  IF name = "organizations" THEN this.organizations
  ELSE IF name = "connections" THEN this.connections
  ELSE this.members

\* params carries a non-empty value for the placeholder name
HasValue(params, name) ==
  LET v == Prop(params, name)
  IN v.type \notin {"undefined", "null"} /\ ~(v.type = "string" /\ v.val = "")

\* the placeholders of segs that params gives no value
Missing(segs, params) ==
  {i \in DOMAIN segs : segs[i].kind = "ph" /\ ~HasValue(params, segs[i].name)}

\* nothing but further placeholders follows position i
Trailing(segs, i) == \A j \in (i + 1)..Len(segs) : segs[j].kind = "ph"

\* params lacks a value for a placeholder that is not trailing
MissingNonTrailing(segs, params) ==
  \E i \in Missing(segs, params) : ~Trailing(segs, i)

\* the segments of the concrete path: literals, substituted values, and
\* nothing for a dropped placeholder
RECURSIVE PathFrom(_, _, _)
PathFrom(segs, params, i) ==
  IF i > Len(segs) THEN <<>>
  ELSE LET s == segs[i]
           rest == PathFrom(segs, params, i + 1)
       IN IF s.kind = "lit" THEN <<s.name>> \o rest
          ELSE IF HasValue(params, s.name) THEN <<Prop(params, s.name).val>> \o rest
          ELSE rest

\* resolution that drops every placeholder without a value, trailing or not
Resolve_DropsAny(url, params, verb) ==
  [ok |-> TRUE, base |-> url.base, path |-> PathFrom(url.segs, params, 1)]

\* Endpoint Template resolution: a missing trailing placeholder is dropped, a
\* missing non-trailing one is an error; get needs the item form
Resolve(url, params, verb) ==
  IF MissingNonTrailing(url.segs, params)
     \/ (verb = "get" /\ Missing(url.segs, params) # {})
  THEN [ok |-> FALSE, base |-> url.base, path |-> <<>>]
  ELSE [ok |-> TRUE, base |-> url.base, path |-> PathFrom(url.segs, params, 1)]

NoCall ==
  [client |-> "", cb |-> FALSE, maxAttempts |-> 0,
   requests |-> 0, status |-> "none", lastKind |-> "none", surfaced |-> 0,
   cbCount |-> 0, promise |-> "none"]

\* client[verb](...cargs) on the retry client named name: the last argument is
\* the callback when it is a function; the template is resolved before any
\* request; the call is then in flight with no request issued yet
ClientInvoke(name, client, verb, cargs) ==
  LET cb == Len(cargs) > 0 /\ InstanceOfFunction(cargs[Len(cargs)])
      rest == IF cb THEN SubSeq(cargs, 1, Len(cargs) - 1) ELSE cargs
      r == Resolve(client.restClient.url, Arg(rest, 1), verb)
  IN IF ~r.ok
     THEN [threw |-> TRUE, error |-> "ArgumentError", ret |-> "none", path |-> <<>>,
           call |-> NoCall]
     ELSE [threw |-> FALSE, error |-> "",
           ret |-> IF cb THEN "undefined" ELSE "promise", path |-> r.path,
           call |-> [client |-> name, cb |-> cb,
                     maxAttempts |-> client.retry, requests |-> 0,
                     status |-> "pending", lastKind |-> "none", surfaced |-> 0,
                     cbCount |-> 0, promise |-> IF cb THEN "none" ELSE "pending"]]

\* what a request can come back with
Outcomes == {"ok", "retryable", "fatal"}

\* attempts counted across every call in flight through the same client
AttemptsUsed_Shared(cs, i) ==
  LET RECURSIVE Sum(_)
      Sum(k) == IF k = 0 THEN 0
                ELSE (IF cs[k].client = cs[i].client THEN cs[k].requests ELSE 0)
                     + Sum(k - 1)
  IN Sum(Len(cs))

\* the attempts call i has used: a count local to the call
AttemptsUsed(cs, i) == cs[i].requests

\* call c after one more request that came back with outcome, used attempts
\* having been made for it before
AfterRequest(c, used, outcome) ==
  LET n == c.requests + 1
      done == outcome # "retryable" \/ used + 1 >= c.maxAttempts
      ok == outcome = "ok"
  IN [c EXCEPT
        !.requests = n,
        !.lastKind = outcome,
        !.status = IF ~done THEN "pending" ELSE IF ok THEN "succeeded" ELSE "failed",
        !.surfaced = IF done /\ ~ok THEN n ELSE 0,
        !.cbCount = IF done /\ c.cb THEN c.cbCount + 1 ELSE c.cbCount,
        !.promise = IF done /\ ~c.cb
                    THEN (IF ok THEN "fulfilled" ELSE "rejected")
                    ELSE c.promise]

(* ------------------------------------------------------------------ state *)
VARIABLES
  ctor,    \* the latest run of the constructor: its options and how it ended
  mgr,     \* the manager the constructor built (NoManager before)
  last,    \* the latest call of a manager method: arguments and how it ended
  calls    \* the calls in flight, and the call that settled last, until the
           \* next call is made

vars == <<ctor, mgr, last, calls>>

NoCtor ==
  [ran |-> FALSE, options |-> [type |-> "undefined", baseUrl |-> U, headers |-> "",
                               retry |-> 0, tokenProvider |-> ""],
   threw |-> FALSE, error |-> "", clients |-> 0]

NoLast ==
  [op |-> "", args |-> <<>>, threw |-> FALSE, thrownBy |-> "", error |-> "",
   ret |-> "none", notified |-> 0, dispatches |-> <<>>, started |-> FALSE,
   path |-> <<>>, call |-> NoCall, argsAfter |-> <<>>]

Init == ctor = NoCtor /\ mgr = NoManager /\ last = NoLast /\ calls = <<>>

(* ----------------------------------------------------------------- inputs *)
OptionsValue(t, b, r) ==
  [type |-> t, baseUrl |-> b, headers |-> "h", retry |-> r, tokenProvider |-> "tp"]

BaseUrls == {U, N, Num("123"), Str(""), Str("https://t")}

WideOptions ==
  {OptionsValue("null", U, 0), OptionsValue("undefined", U, 0),
   OptionsValue("string", U, 0)}
  \cup {OptionsValue("object", b, r) : b \in BaseUrls, r \in 1..MaxAttempts}

NarrowOptions == {OptionsValue("object", Str("https://t"), MaxAttempts)}

IdVals == {U, N, Str(""), Str("org1"), Num("123")}
CidVals == {U, Str(""), Str("c1"), Num("123")}
CbVals == {Undefined, Fn, NotFn}

Args1(A) == {<<a>> : a \in A}
Args2(A, B) == {<<a, b>> : a \in A, b \in B}
Args3(A, B, C) == {<<a, b, c>> : a \in A, b \in B, c \in C}

Org1 == Obj(Str("org1"), U)
Org1C1 == Obj(Str("org1"), Str("c1"))
Data1 == Obj(U, Str("c1"))

\* the argument lists each operation is called with: params absent, a
\* function in the place of params, ids and connection ids missing, null,
\* empty, a string and a number, and a callback absent, a function and a string
WideArgs(op) ==
  CASE op = "create" ->
         Args1({Data1, Undefined}) \cup Args2({Data1, Undefined}, CbVals)
    [] op = "getAll" ->
         {<<>>, <<Fn>>} \cup Args1({EmptyObj, Org1}) \cup Args2({EmptyObj, Org1}, CbVals)
    [] op \in {"get", "delete"} ->
         {<<Fn>>} \cup Args1({EmptyObj, Org1, Obj(Num("123"), U)})
         \cup Args2({EmptyObj, Org1, Obj(Num("123"), U)}, {Fn})
    [] op = "update" ->
         Args2({EmptyObj, Org1}, {Data1}) \cup Args3({EmptyObj, Org1}, {Data1}, CbVals)
    [] op = "getEnabledConnections" ->
         LET P == {Undefined, Org1C1} \cup {Obj(i, U) : i \in IdVals}
         IN {<<>>, <<Fn>>} \cup Args1(P) \cup Args2(P, CbVals)
    [] op = "getEnabledConnection" ->
         LET P == {EmptyObj, Org1, Org1C1, Obj(U, Str("c1")), Obj(Str("org1"), Str(""))}
         IN {<<>>, <<Fn>>} \cup Args1(P) \cup Args2(P, CbVals)
    [] op = "addEnabledConnection" ->
         LET P == {Undefined, Null, Fn, Org1C1} \cup {Obj(i, U) : i \in IdVals}
         IN {<<>>} \cup Args1(P) \cup Args2(P, {Undefined, Data1, Fn})
            \cup Args3(P, {Undefined, Data1}, CbVals)
    [] op = "removeEnabledConnection" ->
         LET P == {Undefined, Fn} \cup {Obj(i, c) : i \in IdVals, c \in CidVals}
         IN {<<>>} \cup Args1(P) \cup Args2(P, {Fn, NotFn})

NarrowArgs(op) ==
  CASE op = "create" -> {<<Data1>>}
    [] op = "getAll" -> {<<>>}
    [] op = "get" -> {<<Org1>>}
    [] op = "update" -> {<<Org1, Data1>>}
    [] op = "delete" -> {<<Org1>>}
    [] op = "getEnabledConnections" -> {<<Org1>>}
    [] op = "getEnabledConnection" -> {<<EmptyObj>>}
    [] op = "addEnabledConnection" -> {<<Org1C1, Data1, Fn>>, <<EmptyObj>>}
    [] op = "removeEnabledConnection" -> {<<Org1C1>>, <<Org1>>}

\* Sequential: one call at a time, every shape of argument.
\* Concurrent: up to MaxCalls calls in flight, one argument list an operation.
Sequential == [cap |-> 1, wide |-> TRUE]
Concurrent == [cap |-> MaxCalls, wide |-> FALSE]
ArgsOf(mode, op) == IF mode.wide THEN WideArgs(op) ELSE NarrowArgs(op)

(* ---------------------------------------------------------------- actions *)
\* new OrganizationsManager(options)
Construct(O) ==
  \E options \in O :
    /\ ~mgr.built
    /\ LET r == OrganizationsManager(options)
       IN /\ ctor' = [ran |-> TRUE, options |-> options, threw |-> r.threw,
                      error |-> r.error, clients |-> r.clients]
          /\ mgr' = r.this
    /\ UNCHANGED <<last, calls>>

IsPending(c) == c.status = "pending"

\* mgr[op](...args) on a built manager: the method, then the client call it
\* makes, up to the point where the call returns to the caller
Invoke(op, args, cap) ==
  /\ Len(SelectSeq(calls, IsPending)) < cap
  /\ LET r == Method(op, mgr, args)
         reaches == ~r.threw /\ r.dispatches # <<>>
         c == IF reaches
              THEN ClientInvoke(r.dispatches[1].client,
                                ClientOf(r.this, r.dispatches[1].client),
                                r.dispatches[1].verb, r.dispatches[1].args)
              ELSE [threw |-> FALSE, error |-> "",
                    ret |-> IF r.threw THEN "none" ELSE "undefined", path |-> <<>>,
                    call |-> NoCall]
         started == reaches /\ ~c.threw
     IN /\ mgr' = r.this
        /\ last' = [op |-> op, args |-> args,
                    threw |-> r.threw \/ c.threw,
                    thrownBy |-> IF r.threw THEN "manager"
                                 ELSE IF c.threw THEN "client" ELSE "",
                    error |-> IF r.threw THEN r.error ELSE c.error,
                    ret |-> c.ret, notified |-> r.notified,
                    dispatches |-> r.dispatches, started |-> started,
                    path |-> c.path, call |-> c.call, argsAfter |-> r.argsAfter]
        /\ calls' = IF started
                    THEN Append(SelectSeq(calls, IsPending), c.call)
                    ELSE SelectSeq(calls, IsPending)
  /\ UNCHANGED ctor

Call_create(mode) ==
  /\ mgr.built
  /\ \E args \in ArgsOf(mode, "create") : Invoke("create", args, mode.cap)

Call_getAll(mode) ==
  /\ mgr.built
  /\ \E args \in ArgsOf(mode, "getAll") : Invoke("getAll", args, mode.cap)

Call_get(mode) ==
  /\ mgr.built
  /\ \E args \in ArgsOf(mode, "get") : Invoke("get", args, mode.cap)

Call_update(mode) ==
  /\ mgr.built
  /\ \E args \in ArgsOf(mode, "update") : Invoke("update", args, mode.cap)

Call_delete(mode) ==
  /\ mgr.built
  /\ \E args \in ArgsOf(mode, "delete") : Invoke("delete", args, mode.cap)

Call_getEnabledConnections(mode) ==
  /\ mgr.built
  /\ \E args \in ArgsOf(mode, "getEnabledConnections") : Invoke("getEnabledConnections", args, mode.cap)

Call_getEnabledConnection(mode) ==
  /\ mgr.built
  /\ \E args \in ArgsOf(mode, "getEnabledConnection") : Invoke("getEnabledConnection", args, mode.cap)

Call_addEnabledConnection(mode) ==
  /\ mgr.built
  /\ \E args \in ArgsOf(mode, "addEnabledConnection") : Invoke("addEnabledConnection", args, mode.cap)

Call_removeEnabledConnection(mode) ==
  /\ mgr.built
  /\ \E args \in ArgsOf(mode, "removeEnabledConnection") : Invoke("removeEnabledConnection", args, mode.cap)

\* one request of a call in flight comes back
Attempt ==
  \E i \in DOMAIN calls, outcome \in Outcomes :
    /\ calls[i].status = "pending"
    /\ LET rank == Cardinality({j \in 1..i : IsPending(calls[j])})
       IN calls' = [SelectSeq(calls, IsPending) EXCEPT
                      ![rank] = AfterRequest(calls[i], AttemptsUsed(calls, i), outcome)]
    /\ UNCHANGED <<ctor, mgr, last>>

Next ==
  \/ Construct(WideOptions)
  \/ Call_create(Sequential)
  \/ Call_getAll(Sequential)
  \/ Call_get(Sequential)
  \/ Call_update(Sequential)
  \/ Call_delete(Sequential)
  \/ Call_getEnabledConnections(Sequential)
  \/ Call_getEnabledConnection(Sequential)
  \/ Call_addEnabledConnection(Sequential)
  \/ Call_removeEnabledConnection(Sequential)
  \/ Attempt

Spec == Init /\ [][Next]_vars

NextConcurrent ==
  \/ Construct(NarrowOptions)
  \/ Call_create(Concurrent)
  \/ Call_getAll(Concurrent)
  \/ Call_get(Concurrent)
  \/ Call_update(Concurrent)
  \/ Call_delete(Concurrent)
  \/ Call_getEnabledConnections(Concurrent)
  \/ Call_getEnabledConnection(Concurrent)
  \/ Call_addEnabledConnection(Concurrent)
  \/ Call_removeEnabledConnection(Concurrent)
  \/ Attempt

SpecConcurrent == Init /\ [][NextConcurrent]_vars

\* Every request of a call in flight comes back: the transport settles it.
SpecLive == Init /\ [][Next]_vars /\ WF_vars(Attempt)

(* ----------------------------------------------------------------- claims *)
NonEmptyString(v) == v.type = "string" /\ v.val # ""

WellFormedOptions(o) == o.type = "object" /\ NonEmptyString(o.baseUrl)

\* C1: the constructor succeeds exactly when options is a non-null object
\* whose baseUrl is a non-empty string; otherwise it throws ArgumentError with
\* none of the three rest clients constructed and no manager built.
C1_ConstructorValidates ==
  ctor.ran =>
    /\ ctor.threw <=> ~WellFormedOptions(ctor.options)
    /\ ctor.threw =>
         ctor.error = "ArgumentError" /\ ctor.clients = 0 /\ mgr = NoManager
    /\ ~ctor.threw =>
         /\ ctor.clients = 3
         /\ mgr.built
         /\ NoClient \notin {mgr.organizations, mgr.connections, mgr.members}

C1_Witness == ctor.ran /\ ctor.threw /\ ctor.options.baseUrl = Str("")

\* C2: addEnabledConnection makes exactly one create call on the connections
\* client, with the given params and the data (an empty object when data is
\* falsy), exactly when params.id is a non-empty string; otherwise it throws
\* ArgumentError and calls no client.
C2_AddEnabledConnectionGuard ==
  last.op = "addEnabledConnection" =>
    LET params == Arg(last.args, 1)
        data == Arg(last.args, 2)
    IN IF NonEmptyString(Prop(params, "id"))
       THEN /\ ~last.threw
            /\ Len(last.dispatches) = 1
            /\ last.dispatches[1].client = "connections"
            /\ last.dispatches[1].verb = "create"
            /\ last.dispatches[1].args[1] = params
            /\ last.dispatches[1].args[2] = (IF Truthy(data) THEN data ELSE EmptyObj)
            /\ last.started
       ELSE /\ last.threw
            /\ last.thrownBy = "manager"
            /\ last.error = "ArgumentError"
            /\ last.dispatches = <<>>
            /\ ~last.started

C2_Witness ==
  /\ last.op = "addEnabledConnection"
  /\ Prop(Arg(last.args, 1), "id") = Num("123")
  /\ last.threw

ValidationFails(l) ==
  \/ /\ l.op = "addEnabledConnection"
     /\ ~NonEmptyString(Prop(Arg(l.args, 1), "id"))
  \/ /\ l.op = "removeEnabledConnection"
     /\ \/ ~NonEmptyString(Prop(Arg(l.args, 1), "id"))
        \/ ~NonEmptyString(Prop(Arg(l.args, 1), "connection_id"))

\* C4: a validation failure of the constructor, addEnabledConnection or
\* removeEnabledConnection is a synchronous throw of ArgumentError: the step
\* returns nothing, invokes no callback, and leaves no call behind through
\* which a callback could be invoked or a pending result rejected later.
C4_ValidationThrowsSynchronously ==
  [][/\ (last' # last /\ ValidationFails(last')) =>
          /\ last'.threw
          /\ last'.error = "ArgumentError"
          /\ last'.ret = "none"
          /\ last'.notified = 0
          /\ ~last'.started
          /\ calls' = SelectSeq(calls, IsPending)
     /\ (ctor' # ctor /\ ~WellFormedOptions(ctor'.options)) =>
          /\ ctor'.threw
          /\ ctor'.error = "ArgumentError"
          /\ calls' = calls
          /\ last' = last]_vars

C4_Witness ==
  /\ last.op = "addEnabledConnection"
  /\ last.thrownBy = "manager"
  /\ Arg(last.args, 3) = Fn

\* the caller passed a callback as the last argument
CallbackSupplied(args) == Len(args) > 0 /\ InstanceOfFunction(args[Len(args)])

AnyPending == \E i \in DOMAIN calls : IsPending(calls[i])

\* exactly one completion style, used at most once
C5_OneStyle ==
  /\ (last.op # "" /\ ~last.threw) =>
       /\ last.started
       /\ IF CallbackSupplied(last.args)
          THEN last.ret = "undefined" /\ last.call.cb /\ last.call.promise = "none"
          ELSE last.ret = "promise" /\ ~last.call.cb /\ last.call.promise = "pending"
  /\ \A i \in DOMAIN calls :
       LET c == calls[i]
       IN IF c.cb
          THEN c.promise = "none" /\ c.cbCount = (IF IsPending(c) THEN 0 ELSE 1)
          ELSE /\ c.cbCount = 0
               /\ c.promise = (CASE c.status = "pending" -> "pending"
                                 [] c.status = "succeeded" -> "fulfilled"
                                 [] OTHER -> "rejected")

FiveVerbs == {"create", "getAll", "get", "update", "delete"}

C6_Listed(op) ==
  CASE op = "create" -> <<"organizations", "create">>
    [] op = "getAll" -> <<"organizations", "getAll">>
    [] op = "get" -> <<"organizations", "get">>
    [] op = "update" -> <<"organizations", "update">>
    [] op = "delete" -> <<"organizations", "delete">>
    [] op = "getEnabledConnections" -> <<"connections", "getAll">>
    [] op = "getEnabledConnection" -> <<"connections", "get">>
    [] op = "addEnabledConnection" -> <<"connections", "create">>
    [] op = "removeEnabledConnection" -> <<"connections", "delete">>

\* C6 as stated: every call an operation makes goes to the client and verb
\* listed for it, one of create, getAll, get, update, delete.
C6_Original ==
  \A k \in DOMAIN last.dispatches :
    /\ last.dispatches[k].verb \in FiveVerbs
    /\ <<last.dispatches[k].client, last.dispatches[k].verb>> = C6_Listed(last.op)

\* C6, amended: every call an operation makes goes to the client and verb
\* listed for it, except that update goes to the organization client's patch,
\* a verb outside the five.
C6_DelegationTable ==
  \A k \in DOMAIN last.dispatches :
    <<last.dispatches[k].client, last.dispatches[k].verb>> =
      (IF last.op = "update" THEN <<"organizations", "patch">>
       ELSE C6_Listed(last.op))

C6_Witness ==
  /\ last.op = "update"
  /\ Len(last.dispatches) = 1
  /\ last.dispatches[1].verb = "patch"
  /\ last.started

ConnectionOps ==
  {"getEnabledConnections", "getEnabledConnection", "addEnabledConnection",
   "removeEnabledConnection"}

\* the template of the client op goes through
BoundTemplate(op) ==
  IF op \in ConnectionOps
  THEN mgr.connections.restClient.url.segs
  ELSE mgr.organizations.restClient.url.segs

C8_RetryPerCall ==
  \A i \in DOMAIN calls :
    LET c == calls[i]
        n == ctor.options.retry
    IN /\ c.maxAttempts = n
       /\ c.requests <= n
       /\ IsPending(c) => c.requests < n /\ c.lastKind \in {"none", "retryable"}
       /\ (c.status = "failed" /\ c.lastKind = "retryable") =>
            c.requests = n /\ c.surfaced = n
       /\ (c.status = "failed" /\ c.lastKind = "fatal") => c.surfaced = c.requests
       /\ c.status = "failed" => c.lastKind # "ok"

C8_Witness ==
  \E i, j \in DOMAIN calls :
    /\ i # j
    /\ calls[i].status = "failed"
    /\ calls[i].lastKind = "retryable"
    /\ calls[i].requests = MaxAttempts
    /\ IsPending(calls[j])
    /\ calls[j].requests > 0

ClientNames == {"organizations", "connections", "members"}

\* C9: for each of the three clients the manager builds, some public
\* operation, called with some arguments, reaches that client.
C9_EveryClientReached ==
  mgr.built =>
    \A name \in ClientNames :
      \E op \in PublicOps :
        \E args \in WideArgs(op) :
          LET r == Method(op, mgr, args)
          IN ~r.threw /\ \E k \in DOMAIN r.dispatches : r.dispatches[k].client = name

\* C10: once built, the manager (its three clients, their templates and
\* options) is never changed by a step, and no operation changes the
\* arguments the caller passed.
C10_ManagerImmutable ==
  [][/\ mgr.built => mgr' = mgr
     /\ last'.argsAfter = last'.args]_vars

C10_Witness ==
  /\ mgr.built
  /\ last.op = "addEnabledConnection"
  /\ last.started
  /\ Len(SelectSeq(calls, IsPending)) = MaxCalls

====
